---- MODULE Spec2Model ----
(***************************************************************************)
(* win-service-logger: a log::Log backend that writes records to the       *)
(* Windows event log.  The model covers src/lib.rs: the Logger struct      *)
(* (handle, handle_init, log_name), the static LOGGER, the four            *)
(* installation entry points, Logger::enabled, Logger::log with its        *)
(* std::sync::Once guarded lazy registration, and Drop for Logger.         *)
(* The OS calls (RegisterEventSourceA, ReportEventW,                       *)
(* DeregisterEventSource) are recorded in history variables.               *)
(***************************************************************************)
EXTENDS Integers, Sequences, FiniteSets, TLC

\* ---------------------------------------------------------------- bounds
NumThreads == 2
MaxCalls == 3
MaxSinks == 1

Threads == 1..NumThreads

\* ------------------------------------------------------------- text values
\* Text is a sequence of characters; NUL is the zero character.
NUL == "\\0"

ContainsNul(s) == \E i \in 1..Len(s) : s[i] = NUL

DigitChar == <<"0", "1", "2", "3", "4", "5", "6", "7", "8", "9">>

RECURSIVE Dec(_)
\* Display of an unsigned integer, as format!("{}") prints record.line()
Dec(n) == IF n < 10 THEN <<DigitChar[n + 1]>>
          ELSE Dec(n \div 10) \o <<DigitChar[(n % 10) + 1]>>

\* CString::new(name): Err when the bytes hold a NUL, else the bytes plus a terminator
CStringNew(s) == IF ContainsNul(s) THEN [ok |-> FALSE, val |-> <<>>]
                 ELSE [ok |-> TRUE, val |-> s \o <<NUL>>]

\* U16CString::from_str(msg): Err when the text holds a NUL, else the text plus a terminator
U16CStringFromStr(s) == IF ContainsNul(s) THEN [ok |-> FALSE, val |-> <<>>]
                        ELSE [ok |-> TRUE, val |-> s \o <<NUL>>]

\* ------------------------------------------------------------------ levels
\* log::Level, in the numbering of the log crate (Error = 1 ... Trace = 5)
Levels == {"Error", "Warn", "Info", "Debug", "Trace"}

LevelNum == [Error |-> 1, Warn |-> 2, Info |-> 3, Debug |-> 4, Trace |-> 5]

\* Display for Level, as "{}" prints record.level()
LevelStr == [Error |-> <<"E", "R", "R", "O", "R">>,
             Warn |-> <<"W", "A", "R", "N">>,
             Info |-> <<"I", "N", "F", "O">>,
             Debug |-> <<"D", "E", "B", "U", "G">>,
             Trace |-> <<"T", "R", "A", "C", "E">>]

\* log::LevelFilter, in the numbering of the log crate: Off is below every level
LevelFilterNum == [Off |-> 0, Error |-> 1, Warn |-> 2, Info |-> 3, Debug |-> 4, Trace |-> 5]

\* metadata.level() <= Level::Debug, written by a mutation as "< Level::Debug"
enabledStrict(level) == LevelNum[level] < LevelNum["Debug"]

\* metadata.level() <= Level::Debug, written by a mutation as "<= Level::Trace"
enabledAll(level) == LevelNum[level] <= LevelNum["Trace"]

\* Logger::enabled
enabled(level) == LevelNum[level] <= LevelNum["Debug"]

\* the match with the Warn arm giving the Error type
EventTypeSevere(level) ==
    CASE level = "Trace" -> "EVENTLOG_INFORMATION_TYPE"
      [] level = "Debug" -> "EVENTLOG_INFORMATION_TYPE"
      [] level = "Info" -> "EVENTLOG_INFORMATION_TYPE"
      [] level = "Warn" -> "EVENTLOG_ERROR_TYPE"
      [] level = "Error" -> "EVENTLOG_ERROR_TYPE"

\* the match on record.metadata().level() that picks the event type
EventType(level) ==
    CASE level = "Trace" -> "EVENTLOG_INFORMATION_TYPE"
      [] level = "Debug" -> "EVENTLOG_INFORMATION_TYPE"
      [] level = "Info" -> "EVENTLOG_INFORMATION_TYPE"
      [] level = "Warn" -> "EVENTLOG_WARNING_TYPE"
      [] level = "Error" -> "EVENTLOG_ERROR_TYPE"

\* ----------------------------------------------------------------- records
None == "None"

\* Option<T>: the empty sequence is None, a one-element sequence is Some(x)
Absent == <<>>
Some(x) == <<x>>
UnwrapOr(o, d) == IF o = Absent THEN d ELSE o[1]

AppRs == <<"a", "p", "p", ".", "r", "s">>
Unknown == <<"<", "u", "n", "k", "n", "o", "w", "n", ">">>
DiskLow == <<"d", "i", "s", "k", " ", "l", "o", "w">>
Hello == <<"H", "i">>
WithNul == <<"a", NUL, "b">>

\* the records the threads log: one that is enabled and encodable, one that is not
\* enabled, and one that is enabled and whose arguments hold a NUL
WarnRecord == [level |-> "Warn", file |-> Some(AppRs), line |-> Some(42), args |-> DiskLow]
TraceRecord == [level |-> "Trace", file |-> Some(AppRs), line |-> Some(7), args |-> Hello]
NulRecord == [level |-> "Info", file |-> Absent, line |-> Absent, args |-> WithNul]
Records == {WarnRecord, TraceRecord, NulRecord}

\* one record for each level of log::Level, as the log macros build them (the file
\* and the line of the call site are present)
LevelRecords ==
    {[level |-> l, file |-> Some(AppRs), line |-> Some(42), args |-> DiskLow] : l \in Levels}

\* records built by hand (Record::builder) with the file and the line present or
\* absent, each on its own
LocatedRecords ==
    {[level |-> "Warn", file |-> f, line |-> n, args |-> DiskLow] :
        f \in {Absent, Some(AppRs)}, n \in {Absent, Some(42)}}

\* format! that takes the file and the line together or not at all
FormatCoupled(r) ==
    (IF r.file # Absent /\ r.line # Absent
     THEN r.file[1] \o <<"(">> \o Dec(r.line[1])
     ELSE Unknown \o <<"(">> \o Dec(0))
    \o <<")", ":", " ">>
    \o LevelStr[r.level] \o <<" ", "-", " ">> \o r.args

\* format!("{}({}): {} - {}", file or "<unknown>", line or 0, level, args)
Format(r) ==
    UnwrapOr(r.file, Unknown)
    \o <<"(">> \o Dec(UnwrapOr(r.line, 0)) \o <<")", ":", " ">>
    \o LevelStr[r.level] \o <<" ", "-", " ">> \o r.args

\* ------------------------------------------------------------------- sinks
\* Sink 0 is the static LOGGER; 1..MaxSinks are Logger values made by
\* Logger::new at run time (leaked by the named installers, or owned).
LOGGER == 0
Sinks == 0..MaxSinks
NoSink == 0 - 1

RustApplication == <<"R", "u", "s", "t", " ", "A", "p", "p", "l", "i", "c", "a", "t", "i", "o", "n">>
MyService == <<"s", "v", "c">>
NulName == <<"s", NUL, "c">>
Names == {MyService, NulName}

\* HANDLE values: null, and the handle the OS gives to the event source of sink s
\* (handles that are open at the same time differ)
NullHandle == 0
OsHandle(s) == s + 1

\* what RegisterEventSourceA can return for sink s: null on failure, else the handle
RegisterResults(s) == {NullHandle, OsHandle(s)}

VARIABLES
    kind,         \* sink -> "none" | "static" | "leaked" | "owned" | "dropped"
    log_name,     \* sink -> Logger.log_name
    handle,       \* sink -> Logger.handle
    handle_init,  \* sink -> state of Logger.handle_init (std::sync::Once)
    facade_state, \* log crate: "UNINITIALIZED" | "INITIALIZING" | "INITIALIZED"
    logger,       \* log crate: the installed backend (a sink), NoSink before
    max_level,    \* log crate: the global maximum level filter
    pc,           \* thread -> position
    frame,        \* thread -> locals of the call in progress
    nCalls,       \* number of API calls started (bounded by MaxCalls)
    exited,       \* the process has ended
    regLog,       \* sink -> handles returned by RegisterEventSourceA, in order
    writes,       \* sink -> number of writes to Logger.handle
    reports,      \* sink -> arguments of the ReportEventW calls, in order
    deregLog,     \* sink -> handles passed to DeregisterEventSource, in order
    calls,        \* sink -> counters of the log calls made on it
    installs,     \* results of the completed installation calls, in order
    dropped       \* log requests the facade dropped after an installer returned Ok

vars == <<kind, log_name, handle, handle_init, facade_state, logger, max_level, pc, frame,
          nCalls, exited, regLog, writes, reports, deregLog, calls, installs, dropped>>

sinkVars == <<kind, log_name, handle, handle_init>>
facadeVars == <<facade_state, logger, max_level, installs, dropped>>
osVars == <<regLog, writes, reports, deregLog>>

NoFrame == [op |-> "none", sink |-> NoSink, rec |-> None, reg |-> NullHandle, h |-> NullHandle,
            etype |-> None, wide |-> <<>>, res |-> None]

\* log calls made on a sink: with a Trace record, with a record of another level,
\* among the latter those whose formatted line holds no NUL, and the calls that
\* ended by a panic instead of a return
NoCalls == [trace |-> 0, leveled |-> 0, encodable |-> 0, panicked |-> 0]

\* requests dropped by the facade: with a Trace record, with a record of another level
NoDrops == [trace |-> 0, leveled |-> 0]

\* the counters after one more log call with record r
Counted(c, r) ==
    IF r.level = "Trace" THEN [c EXCEPT !.trace = @ + 1]
    ELSE [c EXCEPT !.leveled = @ + 1,
                   !.encodable = IF ContainsNul(Format(r)) THEN @ ELSE @ + 1]


\* Logger::new that opens the event source at once
NewEager(s, name) ==
    /\ handle' = [handle EXCEPT ![s] = OsHandle(s)]
    /\ log_name' = [log_name EXCEPT ![s] = name]
    /\ handle_init' = [handle_init EXCEPT ![s] = "COMPLETE"]

\* Logger::new: null handle, the name, a fresh Once
New(s, name) ==
    /\ handle' = [handle EXCEPT ![s] = NullHandle]
    /\ log_name' = [log_name EXCEPT ![s] = name]
    /\ handle_init' = [handle_init EXCEPT ![s] = "INCOMPLETE"]

\* the program at start: the static LOGGER is built by Logger::new("Rust Application")
Init ==
    /\ kind = [s \in Sinks |-> IF s = LOGGER THEN "static" ELSE "none"]
    /\ log_name = [s \in Sinks |-> IF s = LOGGER THEN RustApplication ELSE <<>>]
    /\ handle = [s \in Sinks |-> NullHandle]
    /\ handle_init = [s \in Sinks |-> "INCOMPLETE"]
    /\ facade_state = "UNINITIALIZED"
    /\ logger = NoSink
    /\ max_level = "Off"
    /\ pc = [t \in Threads |-> "idle"]
    /\ frame = [t \in Threads |-> NoFrame]
    /\ nCalls = 0
    /\ exited = FALSE
    /\ regLog = [s \in Sinks |-> <<>>]
    /\ writes = [s \in Sinks |-> 0]
    /\ reports = [s \in Sinks |-> <<>>]
    /\ deregLog = [s \in Sinks |-> <<>>]
    /\ calls = [s \in Sinks |-> NoCalls]
    /\ installs = <<>>
    /\ dropped = NoDrops

\* the Loggers a caller can have a reference to: the pub static, a value it owns,
\* and through log::logger() the leaked box that was installed
Reachable(s) ==
    \/ kind[s] \in {"static", "owned"}
    \/ kind[s] = "leaked" /\ facade_state = "INITIALIZED" /\ logger = s

CanCall(t) == ~exited /\ pc[t] = "idle" /\ nCalls < MaxCalls

At(t, where) == ~exited /\ pc[t] = where

Goto(t, where) == pc' = [pc EXCEPT ![t] = where]

\* a call ends and its locals are gone; after a panic the thread was caught by
\* catch_unwind, or ended and another took its place
Finish(t) ==
    /\ pc' = [pc EXCEPT ![t] = "idle"]
    /\ frame' = [frame EXCEPT ![t] = NoFrame]

\* log returns to its caller
Return(t) == Finish(t)

\* log panics (an unwrap of an Err, or a poisoned Once) and unwinds out of the call
Panic(t) ==
    /\ Finish(t)
    /\ calls' = [calls EXCEPT ![frame[t].sink].panicked = @ + 1]

\* ------------------------------------------------------------ Logger::log
\* the number of threads inside a call on sink s
Inside(s) == {t \in Threads : frame[t].op = "log" /\ frame[t].sink = s}

\* entry of Logger::log(s, r): the enabled check
LogEntry(t, s, r) ==
    /\ nCalls' = nCalls + 1
    /\ calls' = [calls EXCEPT ![s] = Counted(@, r)]
    /\ IF enabled(r.level)
       THEN /\ Goto(t, "call_once")
            /\ frame' = [frame EXCEPT ![t] = [NoFrame EXCEPT !.op = "log", !.sink = s, !.rec = r]]
       ELSE UNCHANGED <<pc, frame>>
    /\ UNCHANGED <<sinkVars, facadeVars, osVars, exited>>

\* a thread calls Logger::log on a sink it has a reference to
LogCall(t, s, r) ==
    /\ CanCall(t)
    /\ Reachable(s)
    /\ LogEntry(t, s, r)

\* handle_init.call_once without the RUNNING state: check, then run the closure
CallOnceUnguarded(t) ==
    LET s == frame[t].sink IN
    /\ At(t, "call_once")
    /\ IF handle_init[s] = "COMPLETE" THEN Goto(t, "format") ELSE Goto(t, "register")
    /\ UNCHANGED <<sinkVars, facadeVars, osVars, frame, nCalls, exited, calls>>

\* handle_init.call_once that does not wait for a running initializer
CallOnceNoWait(t) ==
    LET s == frame[t].sink IN
    /\ At(t, "call_once")
    /\ IF handle_init[s] = "INCOMPLETE"
       THEN /\ handle_init' = [handle_init EXCEPT ![s] = "RUNNING"]
            /\ Goto(t, "register")
       ELSE /\ Goto(t, "format")
            /\ UNCHANGED handle_init
    /\ UNCHANGED <<kind, log_name, handle, facadeVars, osVars, frame, nCalls, exited, calls>>

\* handle_init.call_once: INCOMPLETE -> the caller runs the closure; RUNNING -> it
\* waits; COMPLETE -> it goes on; POISONED -> it panics
CallOnce(t) ==
    LET s == frame[t].sink IN
    /\ At(t, "call_once")
    /\ handle_init[s] # "RUNNING"
    /\ CASE handle_init[s] = "INCOMPLETE" ->
              /\ handle_init' = [handle_init EXCEPT ![s] = "RUNNING"]
              /\ Goto(t, "register")
              /\ UNCHANGED <<frame, calls>>
         [] handle_init[s] = "COMPLETE" ->
              /\ Goto(t, "format")
              /\ UNCHANGED <<handle_init, frame, calls>>
         [] handle_init[s] = "POISONED" ->
              /\ Panic(t)
              /\ UNCHANGED handle_init
    /\ UNCHANGED <<kind, log_name, handle, facadeVars, osVars, nCalls, exited>>

\* the closure with a conversion that cannot fail: the name is passed as it is
RegisterSourceLossy(t) ==
    LET s == frame[t].sink IN
    /\ At(t, "register")
    /\ \E h \in RegisterResults(s) :
          /\ regLog' = [regLog EXCEPT ![s] = Append(@, h)]
          /\ frame' = [frame EXCEPT ![t].reg = h]
    /\ Goto(t, "write_handle")
    /\ UNCHANGED <<kind, log_name, handle, handle_init, facadeVars, writes, reports, deregLog,
                   nCalls, exited, calls>>

\* the closure: CString::new(log_name).unwrap(), then RegisterEventSourceA, which
\* returns a handle or null; a panic poisons the Once
RegisterSource(t) ==
    LET s == frame[t].sink IN
    /\ At(t, "register")
    /\ IF CStringNew(log_name[s]).ok
       THEN /\ \E h \in RegisterResults(s) :
                 /\ regLog' = [regLog EXCEPT ![s] = Append(@, h)]
                 /\ frame' = [frame EXCEPT ![t].reg = h]
            /\ Goto(t, "write_handle")
            /\ UNCHANGED <<handle_init, calls>>
       ELSE /\ handle_init' = [handle_init EXCEPT ![s] = "POISONED"]
            /\ Panic(t)
            /\ UNCHANGED regLog
    /\ UNCHANGED <<kind, log_name, handle, facadeVars, writes, reports, deregLog,
                   nCalls, exited>>

\* the closure: *self.handle.get() = handle
WriteHandle(t) ==
    LET s == frame[t].sink IN
    /\ At(t, "write_handle")
    /\ handle' = [handle EXCEPT ![s] = frame[t].reg]
    /\ writes' = [writes EXCEPT ![s] = @ + 1]
    /\ Goto(t, "once_done")
    /\ UNCHANGED <<kind, log_name, handle_init, facadeVars, regLog, reports, deregLog,
                   frame, nCalls, exited, calls>>

\* the closure returned, and the Once is left as it was before the call
OnceDoneNotMarked(t) ==
    LET s == frame[t].sink IN
    /\ At(t, "once_done")
    /\ handle_init' = [handle_init EXCEPT ![s] = "INCOMPLETE"]
    /\ Goto(t, "format")
    /\ UNCHANGED <<kind, log_name, handle, facadeVars, osVars, frame, nCalls, exited, calls>>

\* the closure returned and the Once is left RUNNING: the waiting callers stay
OnceDoneStuck(t) ==
    LET s == frame[t].sink IN
    /\ At(t, "once_done")
    /\ Goto(t, "format")
    /\ UNCHANGED <<sinkVars, facadeVars, osVars, frame, nCalls, exited, calls>>

\* the closure returned: the Once is COMPLETE and the waiting callers go on
OnceDone(t) ==
    LET s == frame[t].sink IN
    /\ At(t, "once_done")
    /\ handle_init' = [handle_init EXCEPT ![s] = "COMPLETE"]
    /\ Goto(t, "format")
    /\ UNCHANGED <<kind, log_name, handle, facadeVars, osVars, frame, nCalls, exited, calls>>

\* format!, the event type, and a conversion that cuts the line at its first NUL
\* instead of failing
FormatRecordLossy(t) ==
    LET r == frame[t].rec
        line == Format(r)
        cut == IF ContainsNul(line)
               THEN SubSeq(line, 1, (CHOOSE i \in 1..Len(line) :
                                        line[i] = NUL /\ \A j \in 1..(i - 1) : line[j] # NUL) - 1)
               ELSE line
    IN
    /\ At(t, "format")
    /\ frame' = [frame EXCEPT ![t].etype = EventType(r.level), ![t].wide = cut \o <<NUL>>]
    /\ Goto(t, "read_handle")
    /\ UNCHANGED <<sinkVars, facadeVars, osVars, nCalls, exited, calls>>

\* format!, the event type, U16CString::from_str(msg).unwrap()
FormatRecord(t) ==
    LET r == frame[t].rec
        wide_msg == U16CStringFromStr(Format(r))
    IN
    /\ At(t, "format")
    /\ IF wide_msg.ok
       THEN /\ frame' = [frame EXCEPT ![t].etype = EventType(r.level), ![t].wide = wide_msg.val]
            /\ Goto(t, "read_handle")
            /\ UNCHANGED calls
       ELSE Panic(t)
    /\ UNCHANGED <<sinkVars, facadeVars, osVars, nCalls, exited>>

\* the read of the handle, followed by a check that unwinds on a null handle
ReadHandleChecked(t) ==
    LET s == frame[t].sink IN
    /\ At(t, "read_handle")
    /\ IF handle[s] = NullHandle
       THEN Panic(t)
       ELSE /\ frame' = [frame EXCEPT ![t].h = handle[s]]
            /\ Goto(t, "report")
            /\ UNCHANGED calls
    /\ UNCHANGED <<sinkVars, facadeVars, osVars, nCalls, exited>>

\* let handle = *self.handle.get()
ReadHandle(t) ==
    LET s == frame[t].sink IN
    /\ At(t, "read_handle")
    /\ frame' = [frame EXCEPT ![t].h = handle[s]]
    /\ Goto(t, "report")
    /\ UNCHANGED <<sinkVars, facadeVars, osVars, nCalls, exited, calls>>

\* the arguments of ReportEventW(handle, event_type, 0, 0, null, 1, 0, &strings, null)
ReportArgs(t) ==
    [handle |-> frame[t].h, event_type |-> frame[t].etype, category |-> 0,
     event_id |-> 0, num_strings |-> 1, data_size |-> 0, strings |-> <<frame[t].wide>>]

\* what ReportEventW can return: FALSE (the report failed) or TRUE
ReportResults == BOOLEAN

\* one ReportEventW call as the OS saw it: its arguments and the status it returned
ReportCall(t, status) == ReportArgs(t) @@ [status |-> status]

\* ReportEventW is called twice (a retry)
ReportEventTwice(t) ==
    LET s == frame[t].sink IN
    /\ At(t, "report")
    /\ \E status \in ReportResults :
          reports' = [reports EXCEPT ![s] = Append(Append(@, ReportCall(t, FALSE)),
                                                  ReportCall(t, status))]
    /\ Return(t)
    /\ UNCHANGED <<sinkVars, facadeVars, regLog, writes, deregLog, nCalls, exited, calls>>

\* ReportEventW, called again when it returned failure
ReportEventRetry(t) ==
    LET s == frame[t].sink IN
    /\ At(t, "report")
    /\ \E status \in ReportResults :
          reports' = [reports EXCEPT ![s] =
                         IF status THEN Append(@, ReportCall(t, status))
                         ELSE Append(Append(@, ReportCall(t, status)), ReportCall(t, TRUE))]
    /\ Return(t)
    /\ UNCHANGED <<sinkVars, facadeVars, regLog, writes, deregLog, nCalls, exited, calls>>

\* ReportEventW succeeds or fails; its status is dropped and log returns
ReportEvent(t) ==
    LET s == frame[t].sink IN
    /\ At(t, "report")
    /\ \E status \in ReportResults :
          reports' = [reports EXCEPT ![s] = Append(@, ReportCall(t, status))]
    /\ Return(t)
    /\ UNCHANGED <<sinkVars, facadeVars, regLog, writes, deregLog, nCalls, exited, calls>>

\* Logger::enabled called on its own (log_enabled!, or a direct call); the caller
\* holds the result
EnabledCall(t, s, level) ==
    /\ CanCall(t)
    /\ Reachable(s)
    /\ nCalls' = nCalls + 1
    /\ Goto(t, "enabled_done")
    /\ frame' = [frame EXCEPT ![t] = [NoFrame EXCEPT !.op = "enabled", !.rec = level,
                                                     !.res = enabled(level)]]
    /\ UNCHANGED <<sinkVars, facadeVars, osVars, exited, calls>>

\* the caller of enabled goes on
EnabledDone(t) ==
    /\ At(t, "enabled_done")
    /\ Finish(t)
    /\ UNCHANGED <<sinkVars, facadeVars, osVars, nCalls, exited, calls>>

\* --------------------------------------------------------- installation
\* the lowest unused Logger slot
FreeSlot == CHOOSE s \in Sinks : kind[s] = "none" /\ \A u \in Sinks : kind[u] = "none" => s <= u

HasFreeSlot == \E s \in Sinks : kind[s] = "none"

\* an installer starts: set_logger is about to run on sink s
StartInstall(t, op, s) ==
    /\ nCalls' = nCalls + 1
    /\ Goto(t, "set_logger")
    /\ frame' = [frame EXCEPT ![t] = [NoFrame EXCEPT !.op = op, !.sink = s]]
    /\ UNCHANGED <<facadeVars, osVars, exited, calls>>

\* try_init(): log::set_logger(&LOGGER)
try_init(t) ==
    /\ CanCall(t)
    /\ StartInstall(t, "try_init", LOGGER)
    /\ UNCHANGED sinkVars

\* init(): try_init().unwrap()
init(t) ==
    /\ CanCall(t)
    /\ StartInstall(t, "init", LOGGER)
    /\ UNCHANGED sinkVars

\* Box::leak(Box::new(Logger::new(name)))
LeakNew(s, name) ==
    /\ New(s, name)
    /\ kind' = [kind EXCEPT ![s] = "leaked"]

\* try_init_with_name(name)
try_init_with_name(t, name) ==
    /\ CanCall(t)
    /\ HasFreeSlot
    /\ LeakNew(FreeSlot, name)
    /\ StartInstall(t, "try_init_with_name", FreeSlot)

\* init_with_name(name)
init_with_name(t, name) ==
    /\ CanCall(t)
    /\ HasFreeSlot
    /\ LeakNew(FreeSlot, name)
    /\ StartInstall(t, "init_with_name", FreeSlot)

\* the installers that unwrap the result of set_logger
Unwraps(op) == op \in {"init", "init_with_name"}

\* what the installer op makes of Err(SetLoggerError)
OnErr(op) == IF Unwraps(op) THEN "panicked" ELSE "Err"

InstallEntry(t, res) == [op |-> frame[t].op, sink |-> frame[t].sink, res |-> res]

\* log::set_logger that stores the logger whatever the state is
SetLoggerReplace(t) ==
    /\ At(t, "set_logger")
    /\ facade_state' = "INITIALIZING"
    /\ Goto(t, "store_logger")
    /\ UNCHANGED <<sinkVars, logger, max_level, installs, dropped, osVars, frame, nCalls,
                   exited, calls>>

\* log::set_logger: compare-exchange UNINITIALIZED -> INITIALIZING; a caller that
\* finds INITIALIZING spins until it ends, a caller that finds INITIALIZED gets
\* Err(SetLoggerError), which init and init_with_name unwrap
SetLogger(t) ==
    /\ At(t, "set_logger")
    /\ facade_state # "INITIALIZING"
    /\ IF facade_state = "UNINITIALIZED"
       THEN /\ facade_state' = "INITIALIZING"
            /\ Goto(t, "store_logger")
            /\ UNCHANGED <<installs, frame>>
       ELSE /\ installs' = Append(installs, InstallEntry(t, OnErr(frame[t].op)))
            /\ Finish(t)
            /\ UNCHANGED facade_state
    /\ UNCHANGED <<sinkVars, logger, max_level, dropped, osVars, nCalls, exited, calls>>

\* log::set_logger: the winner stores the logger and publishes INITIALIZED
StoreLogger(t) ==
    /\ At(t, "store_logger")
    /\ logger' = frame[t].sink
    /\ facade_state' = "INITIALIZED"
    /\ Goto(t, "set_max_level")
    /\ UNCHANGED <<sinkVars, max_level, installs, dropped, osVars, frame, nCalls, exited,
                   calls>>

\* the installer sets the maximum level to Info
SetMaxLevelInfo(t) ==
    /\ At(t, "set_max_level")
    /\ max_level' = "Info"
    /\ installs' = Append(installs, InstallEntry(t, "Ok"))
    /\ Finish(t)
    /\ UNCHANGED <<sinkVars, facade_state, logger, dropped, osVars, nCalls, exited, calls>>

\* .map(|()| log::set_max_level(LevelFilter::Debug)) on Ok
SetMaxLevel(t) ==
    /\ At(t, "set_max_level")
    /\ max_level' = "Debug"
    /\ installs' = Append(installs, InstallEntry(t, "Ok"))
    /\ Finish(t)
    /\ UNCHANGED <<sinkVars, facade_state, logger, dropped, osVars, nCalls, exited, calls>>

\* an installer has returned Ok
Installed == \E k \in 1..Len(installs) : installs[k].res = "Ok"

\* a log macro (trace! ... error!): the facade drops the record above max_level or
\* with no logger installed, else calls log on the installed logger
FacadeLog(t, r) ==
    /\ CanCall(t)
    /\ IF facade_state = "INITIALIZED" /\ LevelNum[r.level] <= LevelFilterNum[max_level]
       THEN LogEntry(t, logger, r)
       ELSE /\ nCalls' = nCalls + 1
            /\ dropped' = IF ~Installed THEN dropped
                          ELSE IF r.level = "Trace" THEN [dropped EXCEPT !.trace = @ + 1]
                          ELSE [dropped EXCEPT !.leveled = @ + 1]
            /\ UNCHANGED <<sinkVars, facade_state, logger, max_level, installs, osVars, pc,
                           frame, exited, calls>>

\* ------------------------------------------------------------- lifetime
\* Logger::new(name) for a value its maker owns (code inside the crate)
NewOwned(name) ==
    /\ ~exited
    /\ HasFreeSlot
    /\ New(FreeSlot, name)
    /\ kind' = [kind EXCEPT ![FreeSlot] = "owned"]
    /\ UNCHANGED <<facadeVars, osVars, pc, frame, nCalls, exited, calls>>

\* Drop for Logger that runs while calls on the value are in progress
DropWhileBorrowed(s) ==
    /\ ~exited
    /\ kind[s] = "owned"
    /\ deregLog' = [deregLog EXCEPT ![s] = Append(@, handle[s])]
    /\ kind' = [kind EXCEPT ![s] = "dropped"]
    /\ UNCHANGED <<log_name, handle, handle_init, facadeVars, regLog, writes, reports,
                   pc, frame, nCalls, exited, calls>>

\* Drop for Logger that releases twice
DropTwice(s) ==
    /\ ~exited
    /\ kind[s] = "owned"
    /\ Inside(s) = {}
    /\ deregLog' = [deregLog EXCEPT ![s] = Append(Append(@, handle[s]), handle[s])]
    /\ kind' = [kind EXCEPT ![s] = "dropped"]
    /\ UNCHANGED <<log_name, handle, handle_init, facadeVars, regLog, writes, reports,
                   pc, frame, nCalls, exited, calls>>

\* Drop for Logger: DeregisterEventSource(handle), whatever the handle is. It runs
\* when the owner lets go of the value, which needs that no call borrows it
Drop(s) ==
    /\ ~exited
    /\ kind[s] = "owned"
    /\ Inside(s) = {}
    /\ deregLog' = [deregLog EXCEPT ![s] = Append(@, handle[s])]
    /\ kind' = [kind EXCEPT ![s] = "dropped"]
    /\ UNCHANGED <<log_name, handle, handle_init, facadeVars, regLog, writes, reports,
                   pc, frame, nCalls, exited, calls>>

\* the process ends: a static and a leaked box are not dropped
ProcessExit ==
    /\ ~exited
    /\ \A t \in Threads : pc[t] = "idle"
    /\ exited' = TRUE
    /\ UNCHANGED <<sinkVars, facadeVars, osVars, pc, frame, nCalls, calls>>

\* the steps inside Logger::log
LogSteps ==
    \/ \E t \in Threads : CallOnce(t)
    \/ \E t \in Threads : RegisterSource(t)
    \/ \E t \in Threads : WriteHandle(t)
    \/ \E t \in Threads : OnceDone(t)
    \/ \E t \in Threads : FormatRecord(t)
    \/ \E t \in Threads : ReadHandle(t)
    \/ \E t \in Threads : ReportEvent(t)

\* Logger values that code inside the crate builds, owns, shares with its threads
\* and drops
Next ==
    \/ \E t \in Threads, s \in Sinks \ {LOGGER}, r \in Records : LogCall(t, s, r)
    \/ LogSteps
    \/ \E n \in Names : NewOwned(n)
    \/ \E s \in Sinks : Drop(s)
    \/ ProcessExit

Spec == Init /\ [][Next]_vars

\* the next step of thread t inside Logger::log
LogStep(t) ==
    \/ CallOnce(t)
    \/ RegisterSource(t)
    \/ WriteHandle(t)
    \/ OnceDone(t)
    \/ FormatRecord(t)
    \/ ReadHandle(t)
    \/ ReportEvent(t)

\* Logger values that code inside the crate builds and shares with its threads,
\* which log one enabled record on them
NextFair ==
    \/ \E t \in Threads, s \in Sinks \ {LOGGER} : LogCall(t, s, WarnRecord)
    \/ LogSteps
    \/ \E n \in Names : NewOwned(n)
    \/ ProcessExit

\* that program with threads that the scheduler runs whenever they can go on and
\* OS calls that return
SpecFair == Init /\ [][NextFair]_vars /\ \A t \in Threads : WF_vars(LogStep(t))

\* the static LOGGER and the leaked Loggers: the installers, the log macros, and
\* direct calls on the Logger the facade holds or on the pub static
NextFacade ==
    \/ \E t \in Threads, s \in Sinks, r \in Records : LogCall(t, s, r)
    \/ \E t \in Threads : try_init(t)
    \/ \E t \in Threads : init(t)
    \/ \E t \in Threads, n \in Names : try_init_with_name(t, n)
    \/ \E t \in Threads, n \in Names : init_with_name(t, n)
    \/ \E t \in Threads : SetLogger(t)
    \/ \E t \in Threads : StoreLogger(t)
    \/ \E t \in Threads : SetMaxLevel(t)
    \/ \E t \in Threads, r \in Records : FacadeLog(t, r)
    \/ \E t \in Threads, s \in Sinks, l \in Levels : EnabledCall(t, s, l)
    \/ \E t \in Threads : EnabledDone(t)
    \/ LogSteps
    \/ ProcessExit

SpecFacade == Init /\ [][NextFacade]_vars

\* the program that logs only through the macros of the log crate, with records of
\* every level
NextLevels ==
    \/ \E t \in Threads : try_init(t)
    \/ \E t \in Threads : init(t)
    \/ \E t \in Threads, name \in Names : try_init_with_name(t, name)
    \/ \E t \in Threads, name \in Names : init_with_name(t, name)
    \/ \E t \in Threads : SetLogger(t)
    \/ \E t \in Threads : StoreLogger(t)
    \/ \E t \in Threads : SetMaxLevel(t)
    \/ \E t \in Threads, r \in LevelRecords : FacadeLog(t, r)
    \/ LogSteps
    \/ ProcessExit

SpecLevels == Init /\ [][NextLevels]_vars

\* the program that calls Logger::log on the static LOGGER with records whose file
\* or line is present or absent
NextRecords ==
    \/ \E t \in Threads, r \in LocatedRecords : LogCall(t, LOGGER, r)
    \/ LogSteps
    \/ ProcessExit

SpecRecords == Init /\ [][NextRecords]_vars

\* ------------------------------------------------------------- properties
\* the threads whose call on sink s has come out of handle_init.call_once normally
PastCallOnce(s) ==
    {t \in Threads : frame[t].op = "log" /\ frame[t].sink = s
                     /\ pc[t] \in {"format", "read_handle", "report"}}

\* C1: on every sink RegisterEventSourceA is called at most once, and exactly once
\* as soon as a log call with an enabled level has come out of call_once or has
\* returned after its report, whatever the number of threads and their interleaving.
C1_RegistersExactlyOnce ==
    \A s \in Sinks :
        /\ Len(regLog[s]) <= 1
        /\ (reports[s] # <<>> \/ PastCallOnce(s) # {}) => Len(regLog[s]) = 1

\* C1 witness: two threads are in log on the same fresh sink at once, one running
\* the initializer after its registration call, the other held at call_once.
C1_Witness ==
    \E s \in Sinks, t1, t2 \in Threads :
        /\ t1 # t2
        /\ frame[t1].sink = s /\ frame[t2].sink = s
        /\ pc[t1] = "write_handle" /\ pc[t2] = "call_once"
        /\ Len(regLog[s]) = 1

\* C2: a thread reads the handle for its report only when the initializer has
\* written it and the Once is complete, and every handle read or passed to
\* ReportEventW is the value the single registration call returned.
C2_ReadsInitializedHandle ==
    /\ \A t \in Threads :
          LET s == frame[t].sink IN
          /\ pc[t] \in {"read_handle", "report"} =>
                /\ handle_init[s] = "COMPLETE"
                /\ writes[s] = 1
                /\ Len(regLog[s]) = 1
                /\ handle[s] = regLog[s][1]
          /\ pc[t] = "report" => frame[t].h = regLog[s][1]
    /\ \A s \in Sinks : \A i \in 1..Len(reports[s]) :
          Len(regLog[s]) = 1 /\ reports[s][i].handle = regLog[s][1]

\* C2 witness: a thread has read for its report the handle the registration
\* returned, after another call reported with the same handle.
C2_Witness ==
    \E s \in Sinks, t \in Threads :
        /\ pc[t] = "report" /\ frame[t].sink = s
        /\ frame[t].h = OsHandle(s)
        /\ Len(reports[s]) = 1
        /\ reports[s][1].handle = OsHandle(s)

\* C3: Logger.handle is written at most once: the write takes it from null to the
\* value the registration call returned, and once the Once is COMPLETE (or
\* POISONED) no step writes it or changes it.
C3_HandleWrittenOnce ==
    [][\A s \in Sinks :
          /\ writes'[s] <= 1
          /\ handle'[s] # handle[s] => writes'[s] = writes[s] + 1
          /\ writes'[s] # writes[s] =>
                /\ writes[s] = 0 /\ handle[s] = NullHandle
                /\ handle_init[s] = "RUNNING"
                /\ Len(regLog[s]) = 1 /\ handle'[s] = regLog[s][1]
          /\ handle_init[s] \in {"COMPLETE", "POISONED"} =>
                /\ handle'[s] = handle[s] /\ writes'[s] = writes[s]
                /\ handle_init'[s] = handle_init[s]]_vars

\* C3 witness: a sink whose handle was written once holds the registered handle
\* after two log calls have reported on it.
C3_Witness ==
    \E s \in Sinks :
        /\ writes[s] = 1 /\ handle[s] = OsHandle(s)
        /\ handle_init[s] = "COMPLETE"
        /\ Len(reports[s]) = 2

\* C4 (as claimed): dropping a sink on which no enabled log call was ever made
\* makes no DeregisterEventSource call.
C4_NoDeregisterWhenUnset ==
    \A s \in Sinks :
        (kind[s] = "dropped" /\ calls[s].leveled = 0) => deregLog[s] = <<>>

\* C5: a sink makes no DeregisterEventSource call before it is dropped and at most
\* one ever; dropping a sink whose handle was written makes exactly one, with the
\* handle its registration call returned.
C5_DeregistersOnceWithHandle ==
    \A s \in Sinks :
        /\ Len(deregLog[s]) <= 1
        /\ kind[s] # "dropped" => deregLog[s] = <<>>
        /\ (kind[s] = "dropped" /\ writes[s] = 1) =>
              Len(regLog[s]) = 1 /\ deregLog[s] = <<regLog[s][1]>>

\* C5 witness: a sink that registered and reported was dropped and its handle
\* was deregistered.
C5_Witness ==
    \E s \in Sinks :
        /\ kind[s] = "dropped"
        /\ regLog[s] = <<OsHandle(s)>>
        /\ reports[s] # <<>>
        /\ deregLog[s] = <<OsHandle(s)>>

\* the installer calls that won set_logger: finished with Ok, or still between the
\* compare-exchange and their return
Winners ==
    Cardinality({i \in 1..Len(installs) : installs[i].res = "Ok"})
    + Cardinality({t \in Threads : pc[t] \in {"store_logger", "set_max_level"}})

InstallsConsistent ==
    /\ (installs # <<>> \/ facade_state # "UNINITIALIZED") => Winners = 1
    /\ \A i \in 1..Len(installs) :
          /\ installs[i].res = "Ok" => logger = installs[i].sink
          /\ installs[i].res # "Ok" =>
                /\ facade_state = "INITIALIZED" /\ logger # NoSink
                /\ installs[i].res = IF installs[i].op \in {"init", "init_with_name"}
                                     THEN "panicked" ELSE "Err"

\* C6: among any calls of try_init, try_init_with_name, init and init_with_name
\* exactly one wins; every other call ends with Err (try_ variants) or a panic
\* (init, init_with_name) once a logger is installed, and the installed logger,
\* once set, never changes.
C6_FirstInstallWins ==
    [][/\ logger # NoSink => logger' = logger
       /\ facade_state = "INITIALIZED" => facade_state' = "INITIALIZED"
       /\ InstallsConsistent']_vars

\* C6 witness: three installer calls have ended, one with Ok, one with Err and one
\* with a panic, and the logger is the winner's.
C6_Witness ==
    /\ Len(installs) = 3
    /\ \E i, j, k \in 1..3 :
          /\ installs[i].res = "Ok" /\ logger = installs[i].sink
          /\ installs[j].res = "Err"
          /\ installs[k].res = "panicked"

\* C7 (as claimed): when the process has ended and the static LOGGER had its
\* handle initialized, that handle was deregistered.
C7_GlobalReleasedAtExit ==
    (exited /\ writes[LOGGER] = 1) => deregLog[LOGGER] = <<handle[LOGGER]>>

\* C8: a log call with a Trace record returns at once and changes nothing of any
\* sink: no registration, no report, the Once and the handle as they were; a sink
\* that got only Trace records is as Logger::new made it.
C8_TraceLogHasNoEffect ==
    [][\A s \in Sinks :
          /\ calls'[s].trace # calls[s].trace =>
                /\ UNCHANGED <<kind, log_name, handle, handle_init>>
                /\ UNCHANGED <<regLog, writes, reports, deregLog>>
                /\ UNCHANGED <<pc, frame>>
          /\ calls'[s].leveled = 0 =>
                /\ handle'[s] = NullHandle /\ handle_init'[s] = "INCOMPLETE"
                /\ regLog'[s] = <<>> /\ reports'[s] = <<>> /\ writes'[s] = 0]_vars

\* C8 witness: a live sink has got Trace records, once when fresh and once after
\* its handle was set.
C8_Witness ==
    \E s \in Sinks :
        /\ calls[s].trace = 2 /\ calls[s].leveled = 1
        /\ handle_init[s] = "COMPLETE" /\ Len(regLog[s]) = 1
        /\ Inside(s) = {}

\* C9: Logger::enabled returns true for Debug, Info, Warn and Error and false for
\* Trace, in every state of the sinks, and the call changes no sink.
C9_EnabledFromDebugUp ==
    [][\A t \in Threads :
          pc'[t] = "enabled_done" =>
              /\ frame'[t].res = (frame'[t].rec \in {"Debug", "Info", "Warn", "Error"})
              /\ pc[t] # "enabled_done" =>
                    /\ UNCHANGED <<kind, log_name, handle, handle_init>>
                    /\ UNCHANGED <<regLog, writes, reports, deregLog>>]_vars

\* C9 witness: with the handle of LOGGER set, one caller holds false for Trace
\* and another holds true for Debug.
C9_Witness ==
    \E t1, t2 \in Threads :
        /\ pc[t1] = "enabled_done" /\ frame[t1].rec = "Trace" /\ frame[t1].res = FALSE
        /\ pc[t2] = "enabled_done" /\ frame[t2].rec = "Debug" /\ frame[t2].res = TRUE
        /\ handle_init[LOGGER] = "COMPLETE" /\ handle[LOGGER] = OsHandle(LOGGER)

\* every ReportEventW call on s passed one string, category 0 and event id 0
ReportShape(s) ==
    \A i \in 1..Len(reports[s]) :
        /\ reports[s][i].num_strings = 1 /\ Len(reports[s][i].strings) = 1
        /\ reports[s][i].category = 0 /\ reports[s][i].event_id = 0

\* a report was made on s only after its registration call and the write of the handle
ReportsAfterRegistration(s) ==
    reports[s] # <<>> => Len(regLog[s]) = 1 /\ writes[s] = 1 /\ handle_init[s] = "COMPLETE"

\* C10 (as claimed): every log call with an enabled level and an encodable message
\* makes exactly one report call, with one string, category 0 and event id 0 and
\* after the registration: when no call is in progress on a sink, its reports are
\* as many as those log calls.
C10_OneReportPerLogCall ==
    \A s \in Sinks :
        /\ ReportShape(s)
        /\ ReportsAfterRegistration(s)
        /\ Inside(s) = {} => Len(reports[s]) = calls[s].encodable

\* C10 (amended): the same, on a sink whose log_name holds no NUL.
C10_OneReportPerLogCallNamed ==
    \A s \in Sinks :
        /\ ReportShape(s)
        /\ ReportsAfterRegistration(s)
        /\ (Inside(s) = {} /\ ~ContainsNul(log_name[s])) =>
              Len(reports[s]) = calls[s].encodable

\* C10 witness: on a sink with an encodable name three log calls have ended, two
\* with encodable messages and one without, and two reports were made.
C10_Witness ==
    \E s \in Sinks :
        /\ kind[s] # "none" /\ ~ContainsNul(log_name[s])
        /\ Inside(s) = {}
        /\ calls[s].leveled = 3 /\ calls[s].encodable = 2
        /\ Len(reports[s]) = 2

\* the record of a thread in log formats to a line that can be encoded
Encodable(t) == ~ContainsNul(Format(frame[t].rec))

\* C11: when RegisterEventSourceA returned null, a log call with an encodable
\* message does not abort: it leaves log only by its ReportEventW call, made with
\* the null handle, and so does every later call on that sink.
C11_NullHandleStillReports ==
    [][\A t \in Threads :
          LET s == frame[t].sink IN
          (/\ frame[t].op = "log" /\ pc[t] \in {"format", "read_handle", "report"}
           /\ regLog[s] = <<NullHandle>>
           /\ Encodable(t)
           /\ pc'[t] = "idle") =>
              /\ pc[t] = "report"
              /\ Len(reports'[s]) = Len(reports[s]) + 1
              /\ reports'[s][Len(reports'[s])].handle = NullHandle
              /\ calls'[s].panicked = calls[s].panicked
              /\ UNCHANGED <<kind, handle, handle_init, regLog>>]_vars

\* C11 witness: the registration of a sink returned null and two log calls have
\* reported with the null handle and returned.
C11_Witness ==
    \E s \in Sinks :
        /\ regLog[s] = <<NullHandle>>
        /\ Len(reports[s]) = 2
        /\ reports[s][1].handle = NullHandle /\ reports[s][2].handle = NullHandle
        /\ calls[s].panicked = 0
        /\ Inside(s) = {}


\* C12: a ReportEventW call that returns failure changes nothing for the caller:
\* the log call returns without a panic, exactly one report call was made for it
\* (no retry), no other sink is written, and the logger is left as a successful
\* report leaves it.
C12_ReportFailureIgnored ==
    [][\A t \in Threads :
          (pc[t] = "report" /\ pc'[t] = "idle") =>
              LET s == frame[t].sink
                  n == Len(reports[s])
              IN /\ Len(reports'[s]) = n + 1
                 /\ SubSeq(reports'[s], 1, n) = reports[s]
                 /\ reports'[s][n + 1].status = FALSE =>
                       /\ calls' = calls
                       /\ frame'[t] = NoFrame
                       /\ \A o \in Sinks \ {s} : reports'[o] = reports[o]
                       /\ UNCHANGED <<sinkVars, facadeVars, regLog, writes, deregLog>>]_vars

\* C12 witness: the first report of a sink failed, the call returned, and a later
\* call on the same sink reported with the same handle and succeeded.
C12_Witness ==
    \E s \in Sinks :
        /\ Len(reports[s]) = 2
        /\ reports[s][1].status = FALSE /\ reports[s][2].status = TRUE
        /\ reports[s][1].handle = reports[s][2].handle
        /\ calls[s].panicked = 0
        /\ handle_init[s] = "COMPLETE"
        /\ Inside(s) = {}


\* the installer that returned Ok installed the static LOGGER
DefaultInstalled ==
    \E k \in 1..Len(installs) : installs[k].res = "Ok" /\ installs[k].sink = LOGGER

\* C13: once an installer has returned Ok the maximum level is Debug; from then on
\* the facade drops no request at Debug, Info, Warn or Error, and after a default
\* installation each of them yields one report call on LOGGER; a Trace request
\* never reaches a sink, so it yields no registration and no report call.
C13_InstallSetsDebug ==
    /\ Installed => max_level = "Debug"
    /\ dropped.leveled = 0
    /\ \A s \in Sinks : calls[s].trace = 0
    /\ (DefaultInstalled /\ \A t \in Threads : pc[t] = "idle") =>
          /\ Len(reports[LOGGER]) = calls[LOGGER].leveled
          /\ calls[LOGGER].panicked = 0
    /\ \A s \in Sinks : calls[s].leveled = 0 => regLog[s] = <<>> /\ reports[s] = <<>>

\* C13 witness: after a default installation a Trace request was dropped and a
\* Debug request produced the one report of LOGGER.
C13_Witness ==
    /\ DefaultInstalled
    /\ \A t \in Threads : pc[t] = "idle"
    /\ dropped = [trace |-> 1, leveled |-> 0]
    /\ calls[LOGGER].leveled = 1
    /\ Len(regLog[LOGGER]) = 1
    /\ Len(reports[LOGGER]) = 1
    /\ \E i \in 1..(Len(reports[LOGGER][1].strings[1]) - 4) :
          SubSeq(reports[LOGGER][1].strings[1], i, i + 4) = <<"D", "E", "B", "U", "G">>


\* the event type the OS is to get for each level
SeverityTable ==
    [Trace |-> "EVENTLOG_INFORMATION_TYPE", Debug |-> "EVENTLOG_INFORMATION_TYPE",
     Info |-> "EVENTLOG_INFORMATION_TYPE", Warn |-> "EVENTLOG_WARNING_TYPE",
     Error |-> "EVENTLOG_ERROR_TYPE"]

\* C14: the event type is a total and fixed function of the level: the match gives
\* Information for Trace, Debug and Info, Warning for Warn and Error for Error, and
\* every report call carries the type of its record's level, whatever handle the
\* sink holds and whatever the earlier reports returned.
C14_EventTypeOfLevel ==
    /\ \A l \in Levels : EventType(l) = SeverityTable[l]
    /\ [][\A t \in Threads :
             (pc[t] = "report" /\ pc'[t] = "idle") =>
                 LET s == frame[t].sink IN
                 reports'[s][Len(reports'[s])].event_type = SeverityTable[frame[t].rec.level]]_vars

\* C14 witness: LOGGER holds the null handle, its first report failed, and it was
\* given a Warning report and an Error report.
C14_Witness ==
    /\ handle[LOGGER] = NullHandle /\ writes[LOGGER] = 1
    /\ Len(reports[LOGGER]) = 2
    /\ reports[LOGGER][1].status = FALSE
    /\ {reports[LOGGER][i].event_type : i \in 1..2} =
          {"EVENTLOG_WARNING_TYPE", "EVENTLOG_ERROR_TYPE"}

\* the lines of the records that differ in the presence of file and line
AppRs42WarnDiskLow ==
    <<"a", "p", "p", ".", "r", "s", "(", "4", "2", ")", ":", " ",
      "W", "A", "R", "N", " ", "-", " ", "d", "i", "s", "k", " ", "l", "o", "w">>
Unknown42WarnDiskLow ==
    <<"<", "u", "n", "k", "n", "o", "w", "n", ">", "(", "4", "2", ")", ":", " ",
      "W", "A", "R", "N", " ", "-", " ", "d", "i", "s", "k", " ", "l", "o", "w">>
AppRs0WarnDiskLow ==
    <<"a", "p", "p", ".", "r", "s", "(", "0", ")", ":", " ",
      "W", "A", "R", "N", " ", "-", " ", "d", "i", "s", "k", " ", "l", "o", "w">>
Unknown0WarnDiskLow ==
    <<"<", "u", "n", "k", "n", "o", "w", "n", ">", "(", "0", ")", ":", " ",
      "W", "A", "R", "N", " ", "-", " ", "d", "i", "s", "k", " ", "l", "o", "w">>

\* the line expected for a record of LocatedRecords
ExpectedLine(r) ==
    IF r.file # Absent
    THEN (IF r.line # Absent THEN AppRs42WarnDiskLow ELSE AppRs0WarnDiskLow)
    ELSE (IF r.line # Absent THEN Unknown42WarnDiskLow ELSE Unknown0WarnDiskLow)

\* the upper-case names of the levels, as Display for log::Level prints them
LevelNames ==
    [Trace |-> <<"T", "R", "A", "C", "E">>, Debug |-> <<"D", "E", "B", "U", "G">>,
     Info |-> <<"I", "N", "F", "O">>, Warn |-> <<"W", "A", "R", "N">>,
     Error |-> <<"E", "R", "R", "O", "R">>]

\* C16: the one string of a report call is the line "{file}({line}): {LEVEL} -
\* {message}" of the record, NUL-terminated, with "<unknown>" for an absent file
\* and 0 for an absent line, each substituted on its own; file "app.rs", line 42,
\* level Warn, message "disk low" gives "app.rs(42): WARN - disk low".
C16_FormattedLine ==
    /\ Format(WarnRecord) = AppRs42WarnDiskLow
    /\ \A r \in LevelRecords :
          Format(r) = AppRs \o <<"(", "4", "2", ")", ":", " ">> \o LevelNames[r.level]
                      \o <<" ", "-", " ">> \o DiskLow
    /\ [][\A t \in Threads :
             (pc[t] = "report" /\ pc'[t] = "idle") =>
                 LET s == frame[t].sink
                     r == frame[t].rec
                 IN reports'[s][Len(reports'[s])].strings = <<ExpectedLine(r) \o <<NUL>>>>]_vars

\* C16 witness: LOGGER was given the line of a record without a file and the line
\* of a record without a line number.
C16_Witness ==
    /\ Len(reports[LOGGER]) = 2
    /\ reports[LOGGER][1].strings = <<Unknown42WarnDiskLow \o <<NUL>>>>
    /\ reports[LOGGER][2].strings = <<AppRs0WarnDiskLow \o <<NUL>>>>


\* the threads inside an installation entry point
Installing == {t \in Threads : pc[t] \in {"set_logger", "store_logger", "set_max_level"}}

\* C15: Logger::new and the installation entry points make no OS call: a sink on
\* which no enabled log call was made has a null handle, a fresh Once and no
\* registration, however many installers ran; a step of an installer leaves the
\* OS history alone; and a registration is made only by a thread inside log, on
\* the sink of that call, as its first registration.
C15_NoOsCallBeforeFirstLog ==
    /\ [](\A s \in Sinks : calls[s].leveled = 0 =>
            /\ handle[s] = NullHandle /\ handle_init[s] = "INCOMPLETE"
            /\ regLog[s] = <<>> /\ writes[s] = 0 /\ reports[s] = <<>> /\ deregLog[s] = <<>>)
    /\ [][/\ (\E t \in Installing : pc'[t] # pc[t]) => UNCHANGED osVars
          /\ \A s \in Sinks : kind'[s] # kind[s] => UNCHANGED osVars
          /\ \A s \in Sinks : regLog'[s] # regLog[s] =>
                /\ regLog[s] = <<>>
                /\ \E t \in Threads : /\ frame[t].op = "log" /\ frame[t].sink = s
                                      /\ pc[t] = "register" /\ pc'[t] = "write_handle"]_vars

\* C15 witness: a named installer has installed its leaked Logger, and the first
\* enabled log call on it has registered the source and not yet stored the handle.
C15_Witness ==
    \E s \in Sinks \ {LOGGER}, t \in Threads :
        /\ kind[s] = "leaked" /\ logger = s /\ Installed
        /\ calls[s].leveled = 1
        /\ frame[t].op = "log" /\ frame[t].sink = s /\ pc[t] = "write_handle"
        /\ Len(regLog[s]) = 1
        /\ handle[s] = NullHandle


\* thread t is inside an enabled log call
InLog(t) == frame[t].op = "log"

\* the threads that run the registration closure of sink s
Runners(s) ==
    {u \in Threads : frame[u].op = "log" /\ frame[u].sink = s
                     /\ pc[u] \in {"register", "write_handle", "once_done"}}

\* a thread inside log cannot take a step only while it is at call_once and another
\* thread runs the closure; after the Once is COMPLETE no thread inside log waits
WaitsOnlyForRunner ==
    \A t \in Threads : InLog(t) =>
        LET s == frame[t].sink IN
        /\ ~ENABLED LogStep(t) =>
              pc[t] = "call_once" /\ handle_init[s] = "RUNNING" /\ Runners(s) \ {t} # {}
        /\ handle_init[s] = "COMPLETE" => ENABLED LogStep(t)

\* C17 as stated: with fair threads and OS calls that return, every enabled log
\* call ends, and ends by returning: no call is ended by a panic; a call waits only
\* at the guard for the thread that runs the registration, and never after the
\* initialization has completed.
C17_EveryLogCallReturns ==
    /\ \A t \in Threads : InLog(t) ~> pc[t] = "idle"
    /\ [](\A s \in Sinks : calls[s].panicked = 0)
    /\ []WaitsOnlyForRunner

\* C17 amended: with fair threads and OS calls that return, every enabled log call
\* ends; it ends by a panic only on a sink whose name holds a NUL or for a record
\* whose line holds a NUL, and by returning otherwise; a call waits only at the
\* guard for the thread that runs the registration, and never after the
\* initialization has completed.
C17_EveryLogCallEnds ==
    /\ \A t \in Threads : InLog(t) ~> pc[t] = "idle"
    /\ [][\A t \in Threads :
             (InLog(t) /\ calls'[frame[t].sink].panicked # calls[frame[t].sink].panicked
                /\ pc'[t] = "idle") =>
                 ContainsNul(log_name[frame[t].sink]) \/ ~Encodable(t)]_vars
    /\ [][\A s \in Sinks : calls'[s].panicked # calls[s].panicked =>
             \E t \in Threads : InLog(t) /\ frame[t].sink = s /\ pc'[t] = "idle"]_vars
    /\ []WaitsOnlyForRunner

\* C17 witness: a thread waits at the guard while another thread, which has made
\* the registration call, runs the closure.
C17_Witness ==
    \E t, u \in Threads, s \in Sinks :
        /\ t # u
        /\ InLog(t) /\ frame[t].sink = s /\ pc[t] = "call_once"
        /\ InLog(u) /\ frame[u].sink = s /\ pc[u] = "write_handle"
        /\ handle_init[s] = "RUNNING"
        /\ ~ENABLED LogStep(t)


\* the threads inside an enabled log call on sink s that are at position p
AtIn(s, p) == {t \in Inside(s) : pc[t] = p}

\* C18: on a sink whose name holds a NUL no registration call and no report call
\* is ever made and the handle stays null; the first enabled log call panics in
\* the closure of the Once, which is then poisoned and never run again, and every
\* enabled log call on that sink, on any thread, ends by a panic.
C18_BadNameAbortsEveryCall ==
    \A s \in Sinks : ContainsNul(log_name[s]) =>
        /\ regLog[s] = <<>> /\ reports[s] = <<>>
        /\ handle[s] = NullHandle /\ writes[s] = 0
        /\ Inside(s) = AtIn(s, "call_once") \cup AtIn(s, "register")
        /\ handle_init[s] \in {"INCOMPLETE", "RUNNING", "POISONED"}
        /\ Cardinality(AtIn(s, "register")) = IF handle_init[s] = "RUNNING" THEN 1 ELSE 0
        /\ calls[s].panicked > 0 => handle_init[s] = "POISONED"
        /\ calls[s].panicked + Cardinality(Inside(s)) = calls[s].leveled

\* C18 witness: two enabled log calls were made on a sink whose name holds a NUL,
\* both ended by a panic, and nothing was registered or reported.
C18_Witness ==
    \E s \in Sinks :
        /\ ContainsNul(log_name[s])
        /\ calls[s].leveled = 2 /\ calls[s].panicked = 2
        /\ handle_init[s] = "POISONED"
        /\ regLog[s] = <<>> /\ reports[s] = <<>> /\ handle[s] = NullHandle


\* C19: a log call whose formatted line holds a NUL ends by a panic at the
\* conversion, after the Once has completed and without a report call; the handle,
\* the Once and the registration are left as they were, and the calls with
\* encodable lines on that sink go on to report with the registered handle, with
\* no second registration.
C19_BadMessageAbortsAfterRegistration ==
    /\ [](\A t \in Threads : (InLog(t) /\ ~Encodable(t)) =>
             pc[t] \in {"call_once", "register", "write_handle", "once_done", "format"})
    /\ [](\A s \in Sinks : calls[s].panicked > 0 /\ ~ContainsNul(log_name[s]) =>
             /\ handle_init[s] = "COMPLETE" /\ Len(regLog[s]) = 1 /\ writes[s] = 1
             /\ handle[s] = regLog[s][1]
             /\ \A t \in AtIn(s, "report") : frame[t].h = regLog[s][1]
             /\ Inside(s) = {} => Len(reports[s]) = calls[s].encodable)
    /\ [][\A t \in Threads :
             (InLog(t) /\ ~Encodable(t) /\ pc[t] = "format" /\ pc'[t] # "format") =>
                 LET s == frame[t].sink IN
                 /\ pc'[t] = "idle"
                 /\ calls'[s].panicked = calls[s].panicked + 1
                 /\ handle_init[s] = "COMPLETE" /\ Len(regLog[s]) = 1
                 /\ UNCHANGED <<sinkVars, osVars>>]_vars

\* C19 witness: a call with a NUL in its line has ended by a panic without a
\* report, and a later call on the same sink is about to report with the handle of
\* the one registration.
C19_Witness ==
    \E s \in Sinks, t \in Threads :
        /\ calls[s].panicked = 1 /\ calls[s].leveled = 2 /\ calls[s].encodable = 1
        /\ reports[s] = <<>>
        /\ Inside(s) = {t} /\ pc[t] = "report"
        /\ regLog[s] = <<OsHandle(s)>> /\ frame[t].h = OsHandle(s)


\* C20: no report call is made on a sink after its DeregisterEventSource call: the
\* deregistration is made when no log call is in progress on the sink, no log call
\* starts on it afterwards, and its reports and its registration stay as they are.
C20_NoReportAfterDeregister ==
    /\ [](\A s \in Sinks : deregLog[s] # <<>> => kind[s] = "dropped" /\ Inside(s) = {})
    /\ [][\A s \in Sinks :
             /\ deregLog'[s] # deregLog[s] => Inside(s) = {}
             /\ deregLog[s] # <<>> =>
                   /\ reports'[s] = reports[s] /\ regLog'[s] = regLog[s]
                   /\ calls'[s] = calls[s]]_vars

\* C20 witness: a sink was given two reports with its registered handle and was
\* deregistered after them; the threads can still make calls.
C20_Witness ==
    \E s \in Sinks :
        /\ Len(deregLog[s]) = 1
        /\ Len(reports[s]) = 2
        /\ \A i \in 1..2 : reports[s][i].handle = deregLog[s][1]
        /\ deregLog[s][1] # NullHandle
        /\ ~exited

====
